---- MODULE Spec2Model ----
(***************************************************************************)
(* Model of pyguessinggame.py: the QuizGame round state, the participants  *)
(* file, the handlers QuizBot registers in run(), and the deferred          *)
(* next-game task.                                                          *)
(*                                                                          *)
(* Scheduling: Application.builder().build() keeps the default sequential   *)
(* update processing, so one handler runs at a time; a handler is split     *)
(* only where it changes state after an await.  The task created by         *)
(* schedule_next_game is an independent asyncio task and may run at any     *)
(* await of a handler.                                                      *)
(***************************************************************************)
EXTENDS Integers, Sequences, FiniteSets, TLC

\* ---------------------------------------------------------------- constants
AUTHORIZED_ADMINS == {"chicago311", "LesterRonquillo", "Aldrin1212"}
POINTS_PER_CORRECT_ANSWER == 5
HINT_PENALTY == 1
MAX_HINTS == 4

\* ------------------------------------------------------------------- bounds
\* Number of entries of tokenimage.json.
NumPuzzles == 3

\* Telegram users that talk to the bot: one operator, one ordinary user.
Users == {"chicago311", "alice"}

\* current_puzzle = None
None == 0

\* -------------------------------------------------------------- text helpers
UpperSeq == <<"A","B","C","D","E","F","G","H","I","J","K","L","M",
              "N","O","P","Q","R","S","T","U","V","W","X","Y","Z">>
LowerSeq == <<"a","b","c","d","e","f","g","h","i","j","k","l","m",
              "n","o","p","q","r","s","t","u","v","w","x","y","z">>

SetMin(S) == CHOOSE x \in S : \A y \in S : x <= y
SetMax(S) == CHOOSE x \in S : \A y \in S : x >= y

\* str.lower(), one character
LowerChar(c) ==
    IF \E i \in 1..Len(UpperSeq) : UpperSeq[i] = c
    THEN LowerSeq[CHOOSE i \in 1..Len(UpperSeq) : UpperSeq[i] = c]
    ELSE c

\* str.lower()
Lower(s) == [i \in 1..Len(s) |-> LowerChar(s[i])]

IsSpace(c) == c \in {" ", "\t", "\n"}

\* str.strip(): drop leading and trailing whitespace
Strip(s) ==
    LET idx == {i \in 1..Len(s) : ~IsSpace(s[i])}
    IN  IF idx = {} THEN <<>> ELSE SubSeq(s, SetMin(idx), SetMax(idx))

\* os.path.splitext(name)[0]: cut at the last dot unless only dots precede it
SplitextRoot(name) ==
    LET dots == {i \in 1..Len(name) : name[i] = "."}
    IN  IF dots = {} THEN name
        ELSE LET d == SetMax(dots)
             IN  IF \E j \in 1..(d-1) : name[j] # "." THEN SubSeq(name, 1, d-1)
                 ELSE name

\* ------------------------------------------------------------------ catalog
\* puzzle['image'] of the i-th catalog entry
Image(i) ==
    CASE i = 1 -> <<"C","a","t",".","p","n","g">>
      [] i = 2 -> <<"d","o","g",".","j","p","g">>
      [] i = 3 -> <<"O","x",".","p","n","g">>
      [] OTHER -> <<"e","m","u",".","v","2",".","p","n","g">>

\* load_puzzle(): the catalog, in file order
load_puzzle == [i \in 1..NumPuzzles |-> i]

\* Chat texts users send (update.message.text)
Texts == { <<"C","A","T"," ">>,
           <<" ","d","o","g">>,
           <<"c","a","t",".","p","n","g">> }

\* handle_message: answer = update.message.text.strip().lower()
Answer == [text \in Texts |-> Lower(Strip(text))]

\* handle_message: expected_answer = os.path.splitext(image)[0].lower()
ExpectedAnswer == [puzzle \in 1..NumPuzzles |-> Lower(SplitextRoot(Image(puzzle)))]

\* handle_message: answer == expected_answer
AnswerMatches(text, puzzle) == Answer[text] = ExpectedAnswer[puzzle]

\* ---------------------------------------------------------------- sequences
Range(s) == {s[i] : i \in 1..Len(s)}

\* Mutant of Shuffles: start_game reloads the catalog before shuffling
ShufflesReloaded(s) ==
    {p \in [1..NumPuzzles -> 1..NumPuzzles] :
        \A x \in 1..NumPuzzles : \E i \in 1..NumPuzzles : p[i] = x}

\* random.shuffle: every permutation of the list
Shuffles(s) ==
    {p \in [1..Len(s) -> Range(s)] : \A x \in Range(s) : \E i \in 1..Len(s) : p[i] = x}

Last(s) == s[Len(s)]
Front(s) == SubSeq(s, 1, Len(s) - 1)

\* -------------------------------------------------------------------- state
VARIABLES
    game_active,      \* QuizGame.game_active
    current_puzzle,   \* QuizGame.current_puzzle: None or a catalog index
    puzzle_data,      \* QuizGame.puzzle_data: the remaining pool
    hints_given,      \* QuizGame.hints_given
    puzzle_solved,    \* QuizGame.puzzle_solved: "absent" until next_game sets it
    quizjoin_file,    \* content of QUIZJOIN_PATH
    tasks,            \* live delayed_next_game tasks; cur marks the one that
                      \* QuizBot.next_game_task refers to
    pc,               \* the handler suspended at an await, if any
    awards,           \* score increases written since the last draw (history)
    hints_delivered,  \* hints delivered since the last draw, counted up to
                      \* MAX_HINTS + 1 (history)
    points_shown,     \* "Points if correct" of the last hint message, NotShown
                      \* once the round state changed otherwise (history)
    awaiting_puzzle   \* an operator's start_game ran and no puzzle was drawn
                      \* since (history)

round == <<game_active, current_puzzle, hints_given, puzzle_solved>>
prog  == <<game_active, current_puzzle, puzzle_data, hints_given, puzzle_solved,
           quizjoin_file, tasks>>
hist  == <<awards, hints_delivered, points_shown, awaiting_puzzle>>
vars  == <<game_active, current_puzzle, puzzle_data, hints_given, puzzle_solved,
           quizjoin_file, tasks, pc, awards, hints_delivered, points_shown,
           awaiting_puzzle>>

\* No hint message is the latest event of the round
NotShown == 0 - 1

Idle == [st |-> "idle", user |-> ""]

\* ------------------------------------------------------------- roster store
\* load_participate(): the parsed list, [] when the file is not valid JSON
load_participate(file) == IF file.valid THEN file.data ELSE <<>>

\* save_participate(users): temp file then os.replace
save_participate(users) == [valid |-> TRUE, data |-> users]

\* The file after open(QUIZJOIN_PATH, 'w') and before the dump is flushed: it
\* is not valid JSON
Truncated == [valid |-> FALSE, data |-> <<>>]

\* Mutant of save_trace: the dump goes straight to QUIZJOIN_PATH
save_trace_in_place(file, users) == <<file, Truncated, save_participate(users)>>

\* save_participate(users), the content of QUIZJOIN_PATH step by step: on
\* entry and while the temporary file is written, once the temporary file is
\* complete, after os.replace
save_trace(file, users) == <<file, file, save_participate(users)>>

\* handle_reset_callback, confirm_reset, the content of QUIZJOIN_PATH step by
\* step: on entry, after open(QUIZJOIN_PATH, 'w'), after json.dump([]) is flushed
reset_trace(file) == <<file, Truncated, [valid |-> TRUE, data |-> <<>>]>>

\* Mutants of IsParticipant: the membership test compares the wrong field and
\* never matches, or is skipped
IsParticipantNever(username, participants) == FALSE
IsParticipantAlways(username, participants) == TRUE

\* any(p['username'] == username for p in participants)
IsParticipant(username, participants) ==
    \E i \in 1..Len(participants) : participants[i].username = username

\* Mutant of AddParticipant: the new record replaces the list that was read
AddParticipantFresh(participants, username) ==
    <<[username |-> username, score |-> 0]>>

\* join_participate: participants.append(new_participant)
AddParticipant(participants, username) ==
    Append(participants, [username |-> username, score |-> 0])

\* Mutant of AddScore: the loop does not compare usernames and has no break
AddScoreAll(participants, username, points) ==
    [i \in 1..Len(participants) |->
        [participants[i] EXCEPT !.score = @ + points]]

\* Mutant of AddScore: the points replace the score instead of adding to it
AddScoreAssign(participants, username, points) ==
    [i \in 1..Len(participants) |->
        IF participants[i].username = username
        THEN [participants[i] EXCEPT !.score = points]
        ELSE participants[i]]

\* for p in participants: if p['username'] == username: p['score'] += points; break
AddScore(participants, username, points) ==
    [i \in 1..Len(participants) |->
        IF /\ participants[i].username = username
           /\ \A j \in 1..(i-1) : participants[j].username # username
        THEN [participants[i] EXCEPT !.score = @ + points]
        ELSE participants[i]]

\* Mutant of IsAuthorizedAdmin: the allow-list is not consulted
IsAuthorizedAdminAny(user) == TRUE

\* _is_authorized_admin(update)
IsAuthorizedAdmin(user) == user \in AUTHORIZED_ADMINS

Init ==
    /\ game_active = FALSE
    /\ current_puzzle = None
    /\ puzzle_data = load_puzzle
    /\ hints_given = 0
    /\ puzzle_solved = "absent"
    /\ quizjoin_file = [valid |-> TRUE, data |-> <<>>]
    /\ tasks = {}
    /\ pc = Idle
    /\ awards = 0
    /\ hints_delivered = 0
    /\ points_shown = NotShown
    /\ awaiting_puzzle = FALSE

\* ----------------------------------------------------------------- handlers
\* /join_participate
JoinParticipate(u) ==
    /\ pc.st = "idle"
    /\ LET participants == load_participate(quizjoin_file)
       IN  IF IsParticipant(u, participants)
           THEN UNCHANGED quizjoin_file
           ELSE /\ quizjoin_file' = save_participate(AddParticipant(participants, u))
    /\ UNCHANGED <<game_active, current_puzzle, puzzle_data, hints_given, puzzle_solved,
                   tasks, pc, hist>>

\* The process is gone, and its tasks with it
Crashed == [st |-> "crashed", user |-> ""]

Crash ==
    /\ pc' = Crashed
    /\ tasks' = {}
    /\ awards' = 0
    /\ hints_delivered' = 0
    /\ points_shown' = NotShown
    /\ awaiting_puzzle' = FALSE

\* /join_participate of a new user, the process dying in save_participate
\* after step k
JoinParticipateCrash(u, k) ==
    /\ pc.st = "idle"
    /\ LET participants == load_participate(quizjoin_file)
       IN  /\ ~IsParticipant(u, participants)
           /\ quizjoin_file' = save_trace(quizjoin_file, AddParticipant(participants, u))[k]
    /\ Crash
    /\ UNCHANGED <<game_active, current_puzzle, puzzle_data, hints_given, puzzle_solved>>

\* /join_participate of a new user, save_participate raising at step k: the
\* exception leaves the handler
JoinParticipateWriteFailure(u, k) ==
    /\ pc.st = "idle"
    /\ LET participants == load_participate(quizjoin_file)
       IN  /\ ~IsParticipant(u, participants)
           /\ quizjoin_file' = save_trace(quizjoin_file, AddParticipant(participants, u))[k]
    /\ UNCHANGED <<game_active, current_puzzle, puzzle_data, hints_given, puzzle_solved,
                   tasks, pc, hist>>

\* Mutant of PointsShown: the hint being given is not counted
PointsShownBeforeHint(hints) ==
    LET remaining_points == POINTS_PER_CORRECT_ANSWER - (hints * HINT_PENALTY)
    IN  IF remaining_points > 0 THEN remaining_points ELSE 0

\* hint(): remaining_points shown to the requester, max(remaining_points, 0)
PointsShown(hints) ==
    LET remaining_points == POINTS_PER_CORRECT_ANSWER - ((hints + 1) * HINT_PENALTY)
    IN  IF remaining_points > 0 THEN remaining_points ELSE 0

\* Mutant of HintsExhausted: > instead of >=
HintsExhaustedOffByOne(hints) == hints > MAX_HINTS

\* hint(): the MAX_HINTS guard
HintsExhausted(hints) == hints >= MAX_HINTS

\* /hint, with get_hint() incrementing hints_given
Hint(u) ==
    /\ pc.st = "idle"
    /\ IF ~game_active \/ current_puzzle = None
       THEN UNCHANGED <<hints_given, hints_delivered, points_shown>>
       ELSE IF HintsExhausted(hints_given)
       THEN UNCHANGED <<hints_given, hints_delivered, points_shown>>
       ELSE /\ hints_given' = hints_given + 1
            /\ points_shown' = PointsShown(hints_given)
            /\ hints_delivered' = IF hints_delivered < MAX_HINTS + 1
                                  THEN hints_delivered + 1 ELSE hints_delivered
    /\ UNCHANGED <<game_active, current_puzzle, puzzle_data, puzzle_solved,
                   quizjoin_file, tasks, pc, awards, awaiting_puzzle>>

\* /start_game
StartGame(u) ==
    /\ pc.st = "idle"
    /\ IF ~IsAuthorizedAdmin(u)
       THEN UNCHANGED <<game_active, puzzle_data, hints_given, points_shown,
                        awaiting_puzzle>>
       ELSE /\ game_active' = TRUE
            /\ puzzle_data' \in Shuffles(puzzle_data)
            /\ hints_given' = 0
            /\ points_shown' = NotShown
            /\ awaiting_puzzle' = TRUE
    /\ UNCHANGED <<current_puzzle, puzzle_solved, quizjoin_file, tasks,
                   pc, awards, hints_delivered>>

\* /end_game: run() registers no handler for it, so the update is dropped
EndGameCommand(u) ==
    /\ pc.st = "idle"
    /\ UNCHANGED vars

\* /reset_scores: only sends the confirm/cancel keyboard, or the refusal
ResetList(u) ==
    /\ pc.st = "idle"
    /\ UNCHANGED vars

\* Mutant of ConfirmsReset: the button pressed is not looked at
ConfirmsResetAny(data) == TRUE

\* handle_reset_callback: query.data == "confirm_reset"
ConfirmsReset(data) == data = "confirm_reset"

\* button_callback -> handle_reset_callback, data = confirm_reset / cancel_reset
HandleResetCallback(u, data) ==
    /\ pc.st = "idle"
    /\ IF ~IsAuthorizedAdmin(u)
       THEN UNCHANGED quizjoin_file
       ELSE IF ConfirmsReset(data)
       THEN /\ quizjoin_file' = [valid |-> TRUE, data |-> <<>>]
       ELSE UNCHANGED quizjoin_file
    /\ UNCHANGED <<game_active, current_puzzle, puzzle_data, hints_given, puzzle_solved,
                   tasks, pc, hist>>

\* confirm_reset by an operator, the process dying after step k of the write
HandleResetCallbackCrash(u, k) ==
    /\ pc.st = "idle"
    /\ IsAuthorizedAdmin(u)
    /\ quizjoin_file' = reset_trace(quizjoin_file)[k]
    /\ Crash
    /\ UNCHANGED <<game_active, current_puzzle, puzzle_data, hints_given, puzzle_solved>>

\* confirm_reset by an operator, open() or the dump raising at step k: the
\* handler catches it and reports the error
HandleResetCallbackWriteFailure(u, k) ==
    /\ pc.st = "idle"
    /\ IsAuthorizedAdmin(u)
    /\ quizjoin_file' = reset_trace(quizjoin_file)[k]
    /\ UNCHANGED <<game_active, current_puzzle, puzzle_data, hints_given, puzzle_solved,
                   tasks, pc, hist>>

\* next_game: which branch the call takes for this caller
NextGameBranch(u) ==
    IF ~IsAuthorizedAdmin(u) THEN "Unauthorized"
    ELSE IF ~game_active THEN "NoActiveGame"
    ELSE IF puzzle_data = <<>> THEN "NoPuzzlesRemaining"
    ELSE "draw"

\* Mutant of DrawPuzzle: puzzle_data[-1] instead of puzzle_data.pop()
DrawPuzzleNoPop ==
    /\ current_puzzle' = Last(puzzle_data)
    /\ puzzle_data' = puzzle_data
    /\ hints_given' = 0
    /\ puzzle_solved' = "False"
    /\ awards' = 0
    /\ hints_delivered' = 0
    /\ points_shown' = NotShown
    /\ awaiting_puzzle' = FALSE

\* next_game: current_puzzle = puzzle_data.pop(); hints_given = 0; puzzle_solved = False
DrawPuzzle ==
    /\ current_puzzle' = Last(puzzle_data)
    /\ puzzle_data' = Front(puzzle_data)
    /\ hints_given' = 0
    /\ puzzle_solved' = "False"
    /\ awards' = 0
    /\ hints_delivered' = 0
    /\ points_shown' = NotShown
    /\ awaiting_puzzle' = FALSE

\* end_game(update, context), as called from next_game
EndGame(u) ==
    game_active' = (IF IsAuthorizedAdmin(u) THEN FALSE ELSE game_active)

\* /next_game and the next_game button
NextGame(u, via) ==
    /\ pc.st = "idle"
    /\ LET b == NextGameBranch(u)
       IN  IF b = "draw"
           THEN /\ DrawPuzzle
                /\ pc' = [st |-> "ng_send", user |-> u]
                /\ UNCHANGED game_active
           ELSE IF b = "NoPuzzlesRemaining"
           THEN /\ pc' = [st |-> "ng_reply", user |-> u]
                /\ UNCHANGED <<game_active, current_puzzle, puzzle_data, hints_given,
                               puzzle_solved, hist>>
           ELSE UNCHANGED <<game_active, current_puzzle, puzzle_data, hints_given,
                            puzzle_solved, pc, hist>>
    /\ UNCHANGED <<quizjoin_file, tasks>>

\* next_game, empty pool: after the game-over reply, end_game runs (ok), or the
\* reply raised and the handler ends there
NextGameReply(ok) ==
    /\ pc.st = "ng_reply"
    /\ IF ok THEN /\ EndGame(pc.user)
             ELSE /\ UNCHANGED game_active
    /\ pc' = Idle
    /\ UNCHANGED <<current_puzzle, puzzle_data, hints_given, puzzle_solved,
                   quizjoin_file, tasks, hist>>

\* Mutant of NextGameSend: a failed delivery puts the puzzle back
NextGameSendRollsBack(ok) ==
    /\ pc.st = "ng_send"
    /\ pc' = Idle
    /\ IF ok \/ current_puzzle = None
       THEN UNCHANGED <<current_puzzle, puzzle_data>>
       ELSE /\ puzzle_data' = Append(puzzle_data, current_puzzle)
            /\ current_puzzle' = None
    /\ UNCHANGED <<game_active, hints_given, puzzle_solved, quizjoin_file, tasks, hist>>

\* next_game after the draw: send_photo and pin_chat_message went through
\* (ok), or raised and the error was logged and reported
NextGameSend(ok) ==
    /\ pc.st = "ng_send"
    /\ pc' = Idle
    /\ UNCHANGED <<game_active, current_puzzle, puzzle_data, hints_given, puzzle_solved,
                   quizjoin_file, tasks, hist>>

\* handle_message: points for a correct answer
Points(hints) ==
    LET points == POINTS_PER_CORRECT_ANSWER - (hints * HINT_PENALTY)
    IN  IF points > 0 THEN points ELSE 0

\* Mutant of AlreadySolved: the flag is not checked
AlreadySolvedNever(solved) == FALSE

\* handle_message: the puzzle_solved early return
AlreadySolved(solved) == solved = "True"

\* handle_message up to its first await
HandleMessage(u, text) ==
    /\ pc.st = "idle"
    /\ LET participants == load_participate(quizjoin_file)
       IN  IF \/ ~game_active \/ current_puzzle = None
              \/ AlreadySolved(puzzle_solved)
              \/ ~IsParticipant(u, participants)
              \/ ~AnswerMatches(text, current_puzzle)
           THEN UNCHANGED <<puzzle_solved, quizjoin_file, pc, awards, points_shown>>
           ELSE /\ puzzle_solved' = "True"
                /\ points_shown' = NotShown
                /\ quizjoin_file' =
                       save_participate(AddScore(participants, u, Points(hints_given)))
                /\ awards' = awards + 1
                /\ pc' = [st |-> "hm_reply", user |-> u]
    /\ UNCHANGED <<game_active, current_puzzle, puzzle_data, hints_given,
                   tasks, hints_delivered, awaiting_puzzle>>

\* handle_message: the text wins the round
Wins(u, text) ==
    /\ game_active /\ current_puzzle # None
    /\ ~AlreadySolved(puzzle_solved)
    /\ IsParticipant(u, load_participate(quizjoin_file))
    /\ AnswerMatches(text, current_puzzle)

\* handle_message of a winning text, the process dying in save_participate
\* after step k
HandleMessageCrash(u, text, k) ==
    /\ pc.st = "idle"
    /\ Wins(u, text)
    /\ LET participants == load_participate(quizjoin_file)
       IN  quizjoin_file' =
               save_trace(quizjoin_file, AddScore(participants, u, Points(hints_given)))[k]
    /\ Crash
    /\ UNCHANGED <<game_active, current_puzzle, puzzle_data, hints_given, puzzle_solved>>

\* handle_message of a winning text, save_participate raising at step k:
\* puzzle_solved is already set and the exception leaves the handler
HandleMessageWriteFailure(u, text, k) ==
    /\ pc.st = "idle"
    /\ Wins(u, text)
    /\ puzzle_solved' = "True"
    /\ LET participants == load_participate(quizjoin_file)
       IN  quizjoin_file' =
               save_trace(quizjoin_file, AddScore(participants, u, Points(hints_given)))[k]
    /\ points_shown' = NotShown
    /\ UNCHANGED <<game_active, current_puzzle, puzzle_data, hints_given,
                   tasks, pc, awards, hints_delivered, awaiting_puzzle>>

\* Mutant of CancelTask: the previous task is left running
CancelTaskNone(ts) == ts

\* schedule_next_game: if self.next_game_task: self.next_game_task.cancel()
CancelTask(ts) == {t \in ts : ~t.cur}

\* schedule_next_game: self.next_game_task = asyncio.create_task(delayed_next_game())
CreateTask(ts, u) ==
    {[t EXCEPT !.cur = FALSE] : t \in ts} \cup {[user |-> u, st |-> "sleeping", cur |-> TRUE]}

\* handle_message after the congratulation reply: schedule_next_game (ok), or
\* the reply raised and the handler ends there
HandleMessageReply(ok) ==
    /\ pc.st = "hm_reply"
    /\ IF ok
       THEN /\ tasks' = CreateTask(CancelTask(tasks), pc.user)
       ELSE /\ UNCHANGED tasks
    /\ pc' = Idle
    /\ UNCHANGED <<game_active, current_puzzle, puzzle_data, hints_given, puzzle_solved,
                   quizjoin_file, hist>>

\* Mutant of DelayedNextGame: the task closes the round instead of checking
\* game_active
DelayedNextGameClosesRound(t) ==
    /\ t \in tasks
    /\ t.st = "sleeping"
    /\ tasks' = tasks \ {t}
    /\ current_puzzle' = None
    /\ UNCHANGED <<game_active, puzzle_data, hints_given, puzzle_solved,
                   quizjoin_file, pc, hist>>

\* delayed_next_game after asyncio.sleep(60)
DelayedNextGame(t) ==
    /\ t \in tasks
    /\ t.st = "sleeping"
    /\ LET b == IF ~game_active THEN "Deactivated" ELSE NextGameBranch(t.user)
       IN  IF b = "draw"
           THEN /\ DrawPuzzle
                /\ tasks' = (tasks \ {t}) \cup {[t EXCEPT !.st = "sending"]}
                /\ UNCHANGED game_active
           ELSE /\ tasks' = IF b = "NoPuzzlesRemaining"
                            THEN (tasks \ {t}) \cup {[t EXCEPT !.st = "replying"]}
                            ELSE tasks \ {t}
                /\ UNCHANGED <<game_active, current_puzzle, puzzle_data, hints_given,
                               puzzle_solved, hist>>
    /\ UNCHANGED <<quizjoin_file, pc>>

\* delayed_next_game inside next_game, empty pool, after the game-over reply
DelayedNextGameReply(t, ok) ==
    /\ t \in tasks
    /\ t.st = "replying"
    /\ tasks' = tasks \ {t}
    /\ IF ok THEN /\ EndGame(t.user)
             ELSE /\ UNCHANGED game_active
    /\ UNCHANGED <<current_puzzle, puzzle_data, hints_given, puzzle_solved,
                   quizjoin_file, pc, hist>>

\* delayed_next_game inside next_game after the draw: the delivery went
\* through (ok) or raised; the task ends either way
DelayedNextGameSend(t, ok) ==
    /\ t \in tasks
    /\ t.st = "sending"
    /\ tasks' = tasks \ {t}
    /\ UNCHANGED <<game_active, current_puzzle, puzzle_data, hints_given, puzzle_solved,
                   quizjoin_file, pc, hist>>

Next ==
    \/ \E u \in Users : JoinParticipate(u)
    \/ \E u \in Users : Hint(u)
    \/ \E u \in Users : StartGame(u)
    \/ \E u \in Users : EndGameCommand(u)
    \/ \E u \in Users : ResetList(u)
    \/ \E u \in Users : \E data \in {"confirm_reset", "cancel_reset"} :
          HandleResetCallback(u, data)
    \/ \E u \in Users : \E via \in {"next_game", "next_game_button"} : NextGame(u, via)
    \/ \E ok \in BOOLEAN : NextGameReply(ok)
    \/ \E ok \in BOOLEAN : NextGameSend(ok)
    \/ \E u \in Users : \E text \in Texts : HandleMessage(u, text)
    \/ \E ok \in BOOLEAN : HandleMessageReply(ok)
    \/ \E t \in tasks : DelayedNextGame(t)
    \/ \E t \in tasks : \E ok \in BOOLEAN : DelayedNextGameReply(t, ok)
    \/ \E t \in tasks : \E ok \in BOOLEAN : DelayedNextGameSend(t, ok)
    \/ \E u \in Users : \E k \in 1..3 : JoinParticipateCrash(u, k)
    \/ \E u \in Users : \E k \in 1..2 : JoinParticipateWriteFailure(u, k)
    \/ \E u \in Users : \E k \in 1..3 : HandleResetCallbackCrash(u, k)
    \/ \E u \in Users : \E k \in 1..2 : HandleResetCallbackWriteFailure(u, k)
    \/ \E u \in Users : \E text \in Texts : \E k \in 1..3 : HandleMessageCrash(u, text, k)
    \/ \E u \in Users : \E text \in Texts : \E k \in 1..2 :
          HandleMessageWriteFailure(u, text, k)

Spec == Init /\ [][Next]_vars

\* --------------------------------------------------------------- properties
\* The roster as load_participate() returns it
Roster == load_participate(quizjoin_file)

Usernames(participants) == {participants[i].username : i \in 1..Len(participants)}

\* The stored score of username, 0 when there is no record
ScoreOf(participants, username) ==
    LET at == {i \in 1..Len(participants) : participants[i].username = username}
    IN  IF at = {} THEN 0 ELSE participants[SetMin(at)].score

NonNegative(n) == IF n > 0 THEN n ELSE 0

\* The submitted text equals the current puzzle's answer, both case-folded
Correct(text) ==
    /\ current_puzzle # None
    /\ Answer[text] = ExpectedAnswer[current_puzzle]

\* A round is open for answers
RoundOpen == game_active /\ current_puzzle # None /\ puzzle_solved # "True"

TypeOK ==
    /\ game_active \in BOOLEAN
    /\ current_puzzle \in 0..NumPuzzles
    /\ hints_given \in Nat
    /\ puzzle_solved \in {"absent", "False", "True"}
    /\ awards \in Nat
    /\ hints_delivered \in 0..(MAX_HINTS + 1)
    /\ points_shown \in {NotShown} \cup 0..POINTS_PER_CORRECT_ANSWER
    /\ awaiting_puzzle \in BOOLEAN
    /\ pc.st \in {"idle", "hm_reply", "ng_reply", "ng_send", "crashed"}

\* C1: between two draws at most one score increase is written, and once the
\* round is solved a submitted answer, correct or not, from anyone, changes
\* neither the roster nor the round state.
C1_SingleAward ==
    [][ /\ awards' <= 1
        /\ \/ UNCHANGED <<quizjoin_file, round, puzzle_data>>
           \/ ~ \E u \in Users : \E text \in Texts :
                  puzzle_solved = "True" /\ HandleMessage(u, text) ]_vars

\* C1 witness: a solved round with its one award written, in which a registered
\* participant can still send the correct answer.
C1_Witness ==
    /\ puzzle_solved = "True" /\ awards = 1 /\ game_active /\ pc.st = "idle"
    /\ \E u \in Users : \E text \in Texts : u \in Usernames(Roster) /\ Correct(text)

\* C2: a correct answer of a known participant in an open round, after k hints
\* were delivered for the puzzle (k <= MAX_HINTS), raises that participant's
\* score by exactly max(0, 5 - k).
C2_AwardByHints ==
    [][ \A u \in Users : \A text \in Texts :
          ( /\ RoundOpen /\ u \in Usernames(Roster) /\ Correct(text)
            /\ hints_delivered <= MAX_HINTS
            /\ HandleMessage(u, text) )
          => ScoreOf(Roster', u) = ScoreOf(Roster, u) + NonNegative(5 - hints_delivered) ]_vars

\* C3: when the deferred task wakes up with the game active and the pool not
\* empty, the next puzzle becomes current with hints_given = 0, unsolved.
C3_AutoAdvance ==
    [][ \A t \in tasks :
          (DelayedNextGame(t) /\ game_active /\ puzzle_data # <<>>)
          => /\ current_puzzle' = Last(puzzle_data)
             /\ hints_given' = 0
             /\ puzzle_solved' = "False" ]_vars

\* C4: after an operator's start_game the game is active, no hint is counted
\* and no puzzle is current.
C4_StartGameAwaitsPuzzle ==
    [][ \A u \in Users :
          (StartGame(u) /\ u \in AUTHORIZED_ADMINS)
          => game_active' /\ hints_given' = 0 /\ current_puzzle' = None ]_vars

C6_JoinIdempotent ==
    [][ /\ \A i, j \in 1..Len(Roster') :
              Roster'[i].username = Roster'[j].username => i = j
        /\ \/ Roster' = Roster
           \/ ~ \E u \in Users : u \in Usernames(Roster) /\ JoinParticipate(u) ]_vars

\* C6 witness: two participants are registered, one with a score a second join
\* could reset.
C6_Witness ==
    /\ Len(Roster) = 2 /\ pc.st = "idle"
    /\ \E u \in Users : u \in Usernames(Roster) /\ ScoreOf(Roster, u) > 0

\* C7: an operator's end_game command in an active game turns game_active off.
C7_EndGameCommandEnds ==
    (game_active /\ pc.st = "idle")
        => \A u \in Users \cap AUTHORIZED_ADMINS :
              ENABLED (EndGameCommand(u) /\ ~game_active')

\* C8: a gated command or button from a user outside the allow-list changes
\* nothing: round state, pool, pending task and roster stay as they were.
C8_UnauthorizedNoEffect ==
    [][ \/ UNCHANGED prog
        \/ ~ \E u \in Users \ AUTHORIZED_ADMINS :
              \/ StartGame(u)
              \/ \E via \in {"next_game", "next_game_button"} : NextGame(u, via)
              \/ EndGameCommand(u)
              \/ ResetList(u)
              \/ \E data \in {"confirm_reset", "cancel_reset"} :
                    HandleResetCallback(u, data) ]_vars

\* C8 witness: a user outside the allow-list can issue the commands in a game
\* with a puzzle current, a roster and a pending task to lose.
C8_Witness ==
    /\ Users \ AUTHORIZED_ADMINS # {}
    /\ pc.st = "idle" /\ game_active /\ current_puzzle # None /\ hints_given > 0
    /\ puzzle_data # <<>> /\ Roster # <<>> /\ tasks # {}

\* C9: a submitted text changes nothing when the game is off, no puzzle is
\* current, the sender is not registered or the text is not the answer; the
\* round such a text leaves open still pays a registered sender's correct
\* answer and closes on it.
C9_SubmitFrame ==
    [][ /\ \/ UNCHANGED prog
           \/ pc.st # "idle"
           \/ ~ \E u \in Users : \E text \in Texts :
                  /\ \/ ~game_active
                     \/ current_puzzle = None
                     \/ u \notin Usernames(Roster)
                     \/ ~Correct(text)
                  /\ HandleMessage(u, text)
        /\ \/ ~RoundOpen
           \/ pc.st # "idle"
           \/ \A u \in Users : \A text \in Texts :
                  (u \in Usernames(Roster) /\ Correct(text) /\ HandleMessage(u, text))
                  => /\ puzzle_solved' = "True"
                     /\ ScoreOf(Roster', u) > ScoreOf(Roster, u) ]_vars

\* C9 witness: an open round in which a registered participant has a wrong and
\* a right text to send, and an unregistered user exists.
C9_Witness ==
    /\ RoundOpen /\ pc.st = "idle" /\ hints_given > 0
    /\ \E u \in Users : \E wrong, right \in Texts :
          u \in Usernames(Roster) /\ ~Correct(wrong) /\ Correct(right)
    /\ \E u \in Users : u \notin Usernames(Roster)

\* C10: hints_given stays within 0..MAX_HINTS, and a hint request leaves it
\* alone when it is at MAX_HINTS, the game is off or no puzzle is current.
C10_HintsBounded ==
    [][ /\ hints_given' \in 0..MAX_HINTS
        /\ \A u \in Users :
              (Hint(u) /\ (hints_given >= MAX_HINTS \/ ~game_active \/ current_puzzle = None))
              => hints_given' = hints_given ]_vars

\* C10 witness: all four hints of an open round are used up.
C10_Witness ==
    /\ hints_given = MAX_HINTS /\ RoundOpen /\ pc.st = "idle"

\* The roster with username's score raised by some amount, all else equal
ScoreRaised(before, after, username) ==
    /\ Len(after) = Len(before)
    /\ \A i \in 1..Len(before) :
          \/ after[i] = before[i]
          \/ /\ before[i].username = username
             /\ after[i].username = username
             /\ after[i].score >= before[i].score

\* C11: a confirmed reset cut short at any step leaves QUIZJOIN_PATH with its
\* previous content or with the empty list, never with anything else.
C11_ResetAtomic ==
    [][ \A u \in Users : \A k \in 1..3 :
          HandleResetCallbackCrash(u, k)
          => quizjoin_file' \in {quizjoin_file, [valid |-> TRUE, data |-> <<>>]} ]_vars

\* C12: a save cut short by a crash at any step leaves a roster that loads as
\* the complete previous list or the complete new list, and a completed save
\* loads as exactly the list that was saved.
C12_SaveAtomic ==
    [][ /\ pc'.st = "crashed"
           => /\ \A u \in Users : \A k \in 1..3 :
                    JoinParticipateCrash(u, k)
                    => /\ quizjoin_file.valid => quizjoin_file'.valid
                       /\ \/ Roster' = Roster
                          \/ Roster' = Append(Roster, [username |-> u, score |-> 0])
              /\ \A u \in Users : \A text \in Texts : \A k \in 1..3 :
                    HandleMessageCrash(u, text, k)
                    => /\ quizjoin_file.valid => quizjoin_file'.valid
                       /\ \/ Roster' = Roster
                          \/ ScoreRaised(Roster, Roster', u)
        /\ \A u \in Users :
              (u \notin Usernames(Roster) /\ JoinParticipate(u))
              => /\ quizjoin_file'.valid
                 /\ Roster' = Append(Roster, [username |-> u, score |-> 0]) ]_vars

\* C12 witness: the process died in a save while the roster held two
\* participants and a score.
C12_Witness ==
    /\ pc.st = "crashed" /\ quizjoin_file.valid /\ Len(Roster) = 2
    /\ \E u \in Users : ScoreOf(Roster, u) > 0

\* C13: the reset_scores command and the cancel button leave the roster file
\* alone, an operator's confirm empties the roster, and a non-empty roster
\* becomes empty only in an operator's confirm step.
C13_ResetTwoStep ==
    [][ /\ \/ UNCHANGED quizjoin_file
           \/ ~ \E u \in Users :
                  \/ ResetList(u)
                  \/ HandleResetCallback(u, "cancel_reset")
        /\ \/ Roster' = <<>>
           \/ ~ \E u \in Users \cap AUTHORIZED_ADMINS :
                  HandleResetCallback(u, "confirm_reset")
        /\ (Roster # <<>> /\ Roster' = <<>>)
              => \E u \in Users \cap AUTHORIZED_ADMINS :
                    \/ HandleResetCallback(u, "confirm_reset")
                    \/ \E k \in 1..3 : HandleResetCallbackCrash(u, k)
                    \/ \E k \in 1..2 : HandleResetCallbackWriteFailure(u, k) ]_vars

\* C13 witness: the roster is empty in a round whose award had been written,
\* so a reset removed a scored participant.
C13_Witness ==
    /\ Roster = <<>> /\ quizjoin_file.valid /\ pc.st = "idle"
    /\ puzzle_solved = "True" /\ awards = 1

\* C16: when the roster write fails for a winning answer, the roster file
\* keeps its content, puzzle_solved is set and stays set, current_puzzle and
\* hints_given are as before, and the handler ends without scheduling.
C16_WriteFailure ==
    [][ \/ ~RoundOpen
        \/ pc.st # "idle"
        \/ \A u \in Users : \A text \in Texts : \A k \in 1..2 :
          HandleMessageWriteFailure(u, text, k)
          => /\ quizjoin_file' = quizjoin_file
             /\ puzzle_solved' = "True"
             /\ UNCHANGED <<game_active, current_puzzle, hints_given, puzzle_data>>
             /\ UNCHANGED <<tasks, pc>> ]_vars

\* C16 witness: a round closed by an answer whose score was never written.
C16_Witness ==
    /\ puzzle_solved = "True" /\ awards = 0 /\ pc.st = "idle"
    /\ game_active /\ hints_given > 0 /\ Roster # <<>>

\* C14: at most one deferred task is asleep at any time.
C14_OnePendingTimer ==
    Cardinality({t \in tasks : t.st = "sleeping"}) <= 1

\* C14 witness: a second round was won while the task of the first is still
\* asleep, and its handler is about to schedule.
C14_Witness ==
    /\ pc.st = "hm_reply"
    /\ \E t \in tasks : t.st = "sleeping"

\* C15: a deferred task that wakes up with the game off changes neither the
\* round state nor the pool.
C15_TimerWhileInactive ==
    [][ \A t \in tasks :
          (~game_active /\ DelayedNextGame(t)) => UNCHANGED <<round, puzzle_data>> ]_vars

\* C15 witness: the game is off, a puzzle is still current and a task is asleep.
C15_Witness ==
    /\ ~game_active /\ current_puzzle # None
    /\ \E t \in tasks : t.st = "sleeping"

\* A confirmed reset, completed or not
ResetStep ==
    \E u \in Users \cap AUTHORIZED_ADMINS :
        \/ HandleResetCallback(u, "confirm_reset")
        \/ \E k \in 1..3 : HandleResetCallbackCrash(u, k)
        \/ \E k \in 1..2 : HandleResetCallbackWriteFailure(u, k)

\* C17: stored scores are natural numbers; a step that changes the roster file
\* outside a reset keeps every participant in the roster and lowers no score,
\* and changes a score only if that participant's text wins the round.
C17_ScoreMonotone ==
    [][ \/ quizjoin_file' = quizjoin_file
        \/ /\ \A i \in 1..Len(Roster') : Roster'[i].score \in Nat
           /\ \A u \in Users :
                 \/ /\ u \in Usernames(Roster) => u \in Usernames(Roster')
                    /\ ScoreOf(Roster', u) >= ScoreOf(Roster, u)
                 \/ ResetStep
           /\ \A u \in Users :
                 \/ ScoreOf(Roster', u) = ScoreOf(Roster, u)
                 \/ ResetStep
                 \/ \E text \in Texts :
                       /\ Correct(text) /\ RoundOpen /\ u \in Usernames(Roster)
                       /\ \/ HandleMessage(u, text)
                          \/ \E k \in 1..3 : HandleMessageCrash(u, text, k) ]_vars

\* C17 witness: a participant has won twice.
C17_Witness ==
    /\ pc.st = "idle"
    /\ \E u \in Users : ScoreOf(Roster, u) > POINTS_PER_CORRECT_ANSWER

\* C18: when the delivery of a drawn puzzle fails, the draw stands: the puzzle
\* is current and out of the pool, hints_given is 0, the round is unsolved,
\* and the bot takes updates again.
C18_DeliveryFailure ==
    [][ /\ (pc.st = "ng_send" /\ NextGameSend(FALSE))
              => /\ UNCHANGED <<round, puzzle_data>>
                 /\ current_puzzle' # None
                 /\ current_puzzle' \notin Range(puzzle_data')
                 /\ hints_given' = 0
                 /\ puzzle_solved' = "False"
                 /\ pc' = Idle
        /\ \A t \in tasks :
              (t.st = "sending" /\ DelayedNextGameSend(t, FALSE))
              => /\ UNCHANGED <<round, puzzle_data, pc>>
                 /\ current_puzzle' # None
                 /\ current_puzzle' \notin Range(puzzle_data') ]_vars

\* C18 witness: a puzzle was drawn from a pool that is not yet empty and its
\* delivery is in flight.
C18_Witness ==
    /\ pc.st = "ng_send" /\ puzzle_data # <<>> /\ game_active

\* C19: when a hint message is the latest event of an open round, a known
\* participant's correct answer earns exactly the points that message showed.
C19_ShownIsAwarded ==
    [][ \/ points_shown = NotShown
        \/ \A u \in Users : \A text \in Texts :
              ( /\ RoundOpen /\ u \in Usernames(Roster) /\ Correct(text)
                /\ HandleMessage(u, text) )
              => ScoreOf(Roster', u) = ScoreOf(Roster, u) + points_shown ]_vars

\* C19 witness: the fourth hint of an open round was just shown to a roster
\* with a participant who can answer.
C19_Witness ==
    /\ RoundOpen /\ pc.st = "idle" /\ hints_given = MAX_HINTS
    /\ points_shown = 1
    /\ \E u \in Users : \E text \in Texts : u \in Usernames(Roster) /\ Correct(text)

\* C20: a deferred task that wakes up while a round is open and unsolved leaves
\* that round's puzzle current: only an operator's next_game replaces it.
C20_StaleTimerKeepsRound ==
    [][ \A t \in tasks :
          (RoundOpen /\ DelayedNextGame(t))
          => /\ current_puzzle' = current_puzzle
             /\ puzzle_data' = puzzle_data ]_vars

\* C21: between an operator's start_game and the first draw that follows it,
\* no chat text changes the roster.
C21_NoAwardBeforeDraw ==
    [][ \/ ~awaiting_puzzle
        \/ Roster' = Roster
        \/ ~ \E u \in Users : \E text \in Texts : HandleMessage(u, text) ]_vars

\* C22: while a puzzle is current, hints_given is the number of hints
\* delivered for it since it was drawn.
C22_HintsCounterIntegrity ==
    current_puzzle # None => hints_given = hints_delivered

\* C23: a join keeps every stored record's score and adds the new user; a
\* winning answer keeps the set of users and raises the winner's score; and
\* the roster file is written neither while a handler is suspended at an
\* await nor by the deferred task, so nothing comes between a handler's load
\* and its save.
C23_AtomicReadModifyWrite ==
    [][ \/ quizjoin_file' = quizjoin_file
        \/ /\ pc.st = "idle"
           /\ \A t \in tasks :
                 ~ \/ DelayedNextGame(t)
                   \/ \E ok \in BOOLEAN : DelayedNextGameReply(t, ok)
                   \/ \E ok \in BOOLEAN : DelayedNextGameSend(t, ok)
           /\ \A u \in Users :
                 (u \notin Usernames(Roster) /\ JoinParticipate(u))
                 => /\ u \in Usernames(Roster')
                    /\ \A v \in Usernames(Roster) :
                          /\ v \in Usernames(Roster')
                          /\ ScoreOf(Roster', v) = ScoreOf(Roster, v)
           /\ \A u \in Users : \A text \in Texts :
                 (RoundOpen /\ u \in Usernames(Roster) /\ Correct(text)
                    /\ HandleMessage(u, text))
                 => /\ Usernames(Roster') = Usernames(Roster)
                    /\ ScoreOf(Roster', u) > ScoreOf(Roster, u) ]_vars

\* C23 witness: a winner's handler is suspended after its save, a task is
\* asleep, and a user has yet to join.
C23_Witness ==
    /\ pc.st = "hm_reply" /\ tasks # {}
    /\ \E u \in Users : u \notin Usernames(Roster)
    /\ \E u \in Users : ScoreOf(Roster, u) > 0

C25_WinnerOnlyScore ==
    [][ \/ ~RoundOpen
        \/ \A u \in Users : \A text \in Texts :
          (u \in Usernames(Roster) /\ Correct(text) /\ HandleMessage(u, text))
          => /\ Len(Roster') = Len(Roster)
             /\ \A i \in 1..Len(Roster) :
                   /\ DOMAIN Roster'[i] = DOMAIN Roster[i]
                   /\ Roster'[i].username = Roster[i].username
                   /\ Roster[i].username # u => Roster'[i] = Roster[i]
             /\ Cardinality({i \in 1..Len(Roster) : Roster'[i] # Roster[i]}) = 1 ]_vars

\* C25 witness: the second stored participant has just won while the first
\* holds a score of their own.
C25_Witness ==
    /\ pc.st = "hm_reply" /\ Len(Roster) = 2
    /\ Roster[2].username = pc.user /\ Roster[2].score > 0
    /\ Roster[1].score > 0
====
